---- MODULE Spec2Model ----
(***************************************************************************)
(* PromptGenix proof layer: publication of a proof record                  *)
(* (arweave_upload.py), retrieval and verification by transaction id       *)
(* (verify.py) and the Streamlit verification handler (app.py).            *)
(*                                                                         *)
(* Strings the code takes apart (URLs, gateway bases, transaction ids) are *)
(* sequences of one-character strings; texts that are only hashed are      *)
(* TLA+ strings.                                                           *)
(***************************************************************************)
EXTENDS Integers, Sequences, FiniteSets, TLC

VARIABLES
    pc,           \* position of the running call
    entry,        \* which entry point is running
    ledger,       \* the record published under the transaction id
    tx_id,        \* argument of the call
    gateways,     \* fetch_proof_json: the gateway list in use
    prompt,       \* argument of the call
    output,       \* argument of the call
    gi,           \* fetch_proof_json: index of the outer loop (gateways)
    pi,           \* fetch_proof_json: index of the inner loop (url_patterns)
    tried_urls,   \* fetch_proof_json: local list tried_urls
    last_error,   \* fetch_proof_json: local last_error
    attempts,     \* network log: every request issued, with its timeout and outcome
    silent,       \* whether the gateway of the request in flight will ever answer
    response,     \* what the last request got back
    proof,        \* the value the fetch returned
    report,       \* verify_proof's return value / the app's rendered result
    raised        \* the exception that left the call

vars == <<pc, entry, ledger, tx_id, gateways, prompt, output, gi, pi,
          tried_urls, last_error, attempts, silent, response, proof, report,
          raised>>

----------------------------------------------------------------------------
(* Bounds of the model *)

\* longest gateway list passed to fetch_proof_json explicitly
MaxGateways == 2

----------------------------------------------------------------------------
(* Python values *)

None == "None"

\* texts given as prompt / output
Texts == {"", "hello", "world", "world!"}

\* hashlib.sha256(text.encode("utf-8")).hexdigest(), tabulated for Texts
SHA256 ==
    [text \in Texts |->
    CASE text = ""       -> "e3b0c44298fc1c149afbf4c8996fb92427ae41e4649b934ca495991b7852b855"
      [] text = "hello"  -> "2cf24dba5fb0a30e26e83b2ac5b9e29e1b161e5c1fa7425e73043362938b9824"
      [] text = "world"  -> "486ea46224d1bb4fb680f34f7c9ad96a8f24ec88be73ea8e5a6c65260e9cb8a7"
      [] text = "world!" -> "711e9609339e92b03ddc0a211827dba421f38f9ed8b9d806e1ffdd8c15ffa03d"]

\* the digest of the first five characters only
sha256_of_prefix(text) == IF text = "world!" THEN SHA256["world"] ELSE SHA256[text]

\* verify.py's sha256_from_text
sha256_from_text(text) == SHA256[text]

\* arweave_upload.py's sha256_from_text
upload_sha256_from_text(text) == SHA256[text]

\* app.py's sha256_from_text
app_sha256_from_text(text) == SHA256[text]

\* dict.get(key): the value, or None when the key is absent
Get(d, key) == IF key \in DOMAIN d THEN d[key] ELSE None

----------------------------------------------------------------------------
(* String operations on character sequences *)

\* str.rstrip(c)
RECURSIVE rstrip(_, _)
rstrip(s, c) ==
    IF s # <<>> /\ s[Len(s)] = c THEN rstrip(SubSeq(s, 1, Len(s) - 1), c) ELSE s

StartsWith(s, old) ==
    /\ Len(s) >= Len(old)
    /\ SubSeq(s, 1, Len(old)) = old

\* str.replace(old, new): every non-overlapping occurrence, left to right
RECURSIVE replace(_, _, _)
replace(s, old, new) ==
    IF s = <<>> THEN <<>>
    ELSE IF StartsWith(s, old)
         THEN new \o replace(SubSeq(s, Len(old) + 1, Len(s)), old, new)
         ELSE <<s[1]>> \o replace(SubSeq(s, 2, Len(s)), old, new)

\* x in list
In(x, list) == \E i \in 1..Len(list) : list[i] = x

----------------------------------------------------------------------------
(* verify.py: gateways and URL patterns *)

ARWEAVE == <<"h","t","t","p","s",":","/","/","a","r","w","e","a","v","e",".","n","e","t">>
ARWEAVE_TX == ARWEAVE \o <<"/","t","x">>
AR_IO == <<"h","t","t","p","s",":","/","/","a","r","-","i","o",".","n","e","t">>

DEFAULT_GATEWAYS == <<ARWEAVE, ARWEAVE_TX, AR_IO>>

\* gateway bases a caller may pass explicitly
Bases == {ARWEAVE, ARWEAVE \o <<"/">>, ARWEAVE_TX, AR_IO}

GatewayLists == UNION {[1..n -> Bases] : n \in 0..MaxGateways}

TxIds == {<<"a","b","c">>}

url_patterns == <<"{base}/{tx}", "{base}/tx/{tx}/data", "{base}/{tx}/data">>

\* pattern.format(base=base, tx=tx)
format(pattern, base, tx) ==
    CASE pattern = "{base}/{tx}"         -> base \o <<"/">> \o tx
      [] pattern = "{base}/tx/{tx}/data" -> base \o <<"/","t","x","/">> \o tx \o <<"/","d","a","t","a">>
      [] pattern = "{base}/{tx}/data"    -> base \o <<"/">> \o tx \o <<"/","d","a","t","a">>

\* the URL of one (gateway, pattern) combination
CandidateUrl(base, pattern, tx) ==
    replace(format(pattern, rstrip(base, "/"), tx), <<"/","/","t","x">>, <<"/","t","x">>)

----------------------------------------------------------------------------
(* JSON values, texts and response bodies *)

\* a parsed JSON value: an object carries its key/value fields
Object(fields) == [type |-> "object", fields |-> fields]
JsonNull   == [type |-> "null",   fields |-> <<>>]
JsonArray  == [type |-> "array",  fields |-> <<>>]
JsonNumber == [type |-> "number", fields |-> <<>>]
JsonString == [type |-> "string", fields |-> <<>>]
NoValue    == [type |-> "unset",  fields |-> <<>>]

\* result of a step that may raise
Ok(v)    == [exc |-> None, val |-> v]
Raise(e) == [exc |-> e, val |-> NoValue]

\* json.dumps(value): the JSON text of a value
json_dumps(value) == [fmt |-> "json", value |-> value]

\* a text that is not JSON (an HTML error page)
HtmlPage == [fmt |-> "html"]

\* str.encode("utf-8")
encode_utf8(text) == [enc |-> "utf-8", text |-> text]

\* base64.b64encode(bytes).decode("ascii"): base64 text never parses as the
\* JSON of the object it wraps (a body "{..." encodes to "ey...")
b64encode(bytes) == [fmt |-> "base64", payload |-> bytes]

\* bytes that are not valid UTF-8
InvalidUtf8 == [enc |-> "invalid"]

\* bytes.decode("utf-8")
decode_utf8(bytes) ==
    IF bytes.enc = "utf-8" THEN Ok(bytes.text) ELSE Raise("UnicodeDecodeError")

\* json.loads(text)
json_loads(text) ==
    IF text.fmt = "json" THEN Ok(text.value) ELSE Raise("JSONDecodeError")

----------------------------------------------------------------------------
(* arweave_upload.py *)

\* datetime.utcnow().isoformat() + "Z"
Timestamps == {"2026-01-01T00:00:00Z"}

build_proof_metadata(ai_model, p, o, author, organization, now) ==
    [project      |-> "PromptGenix Proof Layer",
     proof_type   |-> "AI_OUTPUT_PROVENANCE",
     ai_model     |-> ai_model,
     prompt_hash  |-> upload_sha256_from_text(p),
     output_hash  |-> upload_sha256_from_text(o),
     created_at   |-> now,
     author       |-> author,
     organization |-> organization]

\* upload_to_arweave: the transaction's data is json.dumps(metadata)
upload_to_arweave(metadata) == encode_utf8(json_dumps(Object(metadata)))

----------------------------------------------------------------------------
(* The network: what a gateway can answer to one GET *)

\* the published record without one field, or with empty hash fields
Without(d, key) == [k \in DOMAIN d \ {key} |-> d[k]]
EmptyHashes(d) == [k \in DOMAIN d |->
                     IF k \in {"prompt_hash", "output_hash"} THEN "" ELSE d[k]]

\* a different valid record, published by someone else
OtherRecord ==
    build_proof_metadata("gpt-4.1", "world!", "hello", "Dohoon Kim",
                         "PromptGenix LLC", "2026-01-01T00:00:00Z")

\* JSON values a gateway may serve when the ledger holds the record d
ServedValues(d) ==
    {Object(d), Object(OtherRecord),
     Object(Without(d, "prompt_hash")), Object(Without(d, "output_hash")),
     Object(EmptyHashes(d)),
     JsonNull, JsonArray, JsonNumber, JsonString}

\* records a gateway may serve base64-wrapped
WrappedValues(d) == {Object(d), Object(OtherRecord)}

\* bodies of a 2xx response: the uploaded data, other JSON texts, base64
\* wrappings of JSON texts, an HTML page, bytes that are not UTF-8
Bodies(d) ==
    {upload_to_arweave(d)}
      \cup {encode_utf8(json_dumps(v)) : v \in ServedValues(d)}
      \cup {encode_utf8(b64encode(encode_utf8(json_dumps(v)))) : v \in WrappedValues(d)}
      \cup {encode_utf8(HtmlPage), InvalidUtf8}

\* outcomes of urlopen + resp.read() on a gateway that answers or refuses:
\* HTTPError (non-2xx), URLError (refused, DNS, connect timeout), or a body
NoBody == [enc |-> "none"]
Responses(d) ==
    {[status |-> "HTTPError", body |-> NoBody],
     [status |-> "URLError",  body |-> NoBody]}
      \cup {[status |-> "200", body |-> b] : b \in Bodies(d)}

\* a gateway that accepted the connection and sends nothing: after the
\* request's timeout the socket read in getresponse() raises TimeoutError,
\* which urlopen does not wrap in URLError
TimedOut == [status |-> "TimeoutError", body |-> NoBody]

NoResponse == [status |-> "none", body |-> NoBody]

\* the answer is a 2xx whose body is UTF-8 JSON text
Decodes(resp) ==
    /\ resp.status = "200"
    /\ resp.body.enc = "utf-8"
    /\ resp.body.text.fmt = "json"

\* per-request timeout of verify.py's _try_fetch
TIMEOUT == 20

\* _try_fetch(url): the body as text, or the exception urlopen / decode raises
_try_fetch(resp) ==
    IF resp.status # "200" THEN Raise(resp.status) ELSE decode_utf8(resp.body)

----------------------------------------------------------------------------
(* verify.py: fetch_proof_json *)

\* the membership test left out: no URL counts as attempted
NeverTried(url, tried) == FALSE

\* line 87: the URL was already attempted in this call
AlreadyTried(url, tried) == In(url, tried)

\* lines 91-95, the try block: fetch the body, then parse it as JSON
TryBlock(resp) ==
    LET body == _try_fetch(resp)
    IN  IF body.exc # None THEN body ELSE json_loads(body.val)

\* line 96: the exception classes the except clause catches
Caught == {"HTTPError", "URLError", "JSONDecodeError"}

\* the return left out of the try block: a decoded value does not end the loop
DispositionWithoutReturn(r) ==
    IF r.exc = None \/ r.exc \in Caught THEN "continue" ELSE "raise"

\* what one attempt does to the loop: return the value, continue with the
\* next candidate, or let the exception leave the function
Disposition(r) ==
    IF r.exc = None THEN "return"
    ELSE IF r.exc \in Caught THEN "continue"
    ELSE "raise"

\* the loop indices after one more (gateway, pattern) combination
NextGi(g, p) == IF p < Len(url_patterns) THEN g ELSE g + 1
NextPi(p) == IF p < Len(url_patterns) THEN p + 1 ELSE 1

\* lines 102-106: the error raised when every attempt failed
RuntimeError(tx, tried, last) ==
    [type |-> "RuntimeError", tx_id |-> tx, urls |-> tried, last_error |-> last]

\* any other exception, leaving the call as it was raised
Exception(type) == [type |-> type, tx_id |-> <<>>, urls |-> <<>>, last_error |-> None]
NoException == Exception(None)

Request(url, timeout) == [url |-> url, timeout |-> timeout, outcome |-> "pending"]

\* the log with the outcome of the request in flight filled in
Settle(log, outcome) == [log EXCEPT ![Len(log)].outcome = outcome]

----------------------------------------------------------------------------
(* verify.py: verify_proof, lines 124-157 *)

NoReport == [kind |-> "none"]

\* the overall verdict computed from one match flag alone
VerifiedByPrompt(prompt_ok, output_ok) == prompt_ok

\* line 137
Verified(prompt_ok, output_ok) == prompt_ok /\ output_ok

verify_proof(tx, record, p, o) ==
    LET stored_prompt_hash == Get(record, "prompt_hash")
        stored_output_hash == Get(record, "output_hash")
        local_prompt_hash  == sha256_from_text(p)
        local_output_hash  == sha256_from_text(o)
        prompt_ok == (stored_prompt_hash = local_prompt_hash)
        output_ok == (stored_output_hash = local_output_hash)
        verified  == Verified(prompt_ok, output_ok)
    IN  [kind               |-> "report",
         tx_id              |-> tx,
         verified           |-> verified,
         prompt_ok          |-> prompt_ok,
         output_ok          |-> output_ok,
         stored_prompt_hash |-> stored_prompt_hash,
         local_prompt_hash  |-> local_prompt_hash,
         stored_output_hash |-> stored_output_hash,
         local_output_hash  |-> local_output_hash,
         proof_metadata     |->
             [project      |-> Get(record, "project"),
              proof_type   |-> Get(record, "proof_type"),
              ai_model     |-> Get(record, "ai_model"),
              created_at   |-> Get(record, "created_at"),
              author       |-> Get(record, "author"),
              organization |-> Get(record, "organization")]]

----------------------------------------------------------------------------
(* app.py: the "Verify Proof" handler, lines 59-93 *)

\* fetch_proof(tx_id): one GET of https://arweave.net/<tx_id>, no timeout given
AppUrl(tx) == ARWEAVE \o <<"/">> \o tx

\* lines 66-90: what the page shows for a fetched record
AppResult(record, p, o) ==
    LET stored_prompt_hash == Get(record, "prompt_hash")
        stored_output_hash == Get(record, "output_hash")
        local_prompt_hash  == app_sha256_from_text(p)
        local_output_hash  == app_sha256_from_text(o)
        prompt_ok == (stored_prompt_hash = local_prompt_hash)
        output_ok == (stored_output_hash = local_output_hash)
        verified  == prompt_ok /\ output_ok
    IN  [kind              |-> "details",
         banner            |-> IF verified THEN "success" ELSE "error",
         message           |-> IF verified
                               THEN "Verification successful. The content is authentic."
                               ELSE "Verification failed. The content does NOT match the proof.",
         prompt_hash_match |-> prompt_ok,
         output_hash_match |-> output_ok]

\* line 61 and line 93: an error banner without verification details
AppError(message) == [kind |-> "error", banner |-> "error", message |-> message]

----------------------------------------------------------------------------
(* State machine *)

Init ==
    /\ pc = "publisher"
    /\ entry = None
    /\ ledger = <<>>
    /\ tx_id = <<>>
    /\ gateways = <<>>
    /\ prompt = ""
    /\ output = ""
    /\ gi = 1
    /\ pi = 1
    /\ tried_urls = <<>>
    /\ last_error = None
    /\ attempts = <<>>
    /\ silent = FALSE
    /\ response = NoResponse
    /\ proof = NoValue
    /\ report = NoReport
    /\ raised = NoException

\* arweave_upload.py __main__: build the record and publish it
Upload(p, o, now) ==
    /\ pc = "publisher"
    /\ ledger' = build_proof_metadata("gpt-4.1", p, o, "Dohoon Kim", "PromptGenix LLC", now)
    /\ pc' = "idle"
    /\ UNCHANGED <<entry, tx_id, gateways, prompt, output, gi, pi, tried_urls,
                   last_error, attempts, silent, response, proof, report, raised>>

\* verify.py __main__: verify_proof(tx, p, o), which calls fetch_proof_json(tx)
CallVerifyProof(tx, p, o) ==
    /\ pc = "idle"
    /\ entry' = "verify_proof"
    /\ tx_id' = tx
    /\ prompt' = p
    /\ output' = o
    /\ gateways' = DEFAULT_GATEWAYS
    /\ pc' = "loop"
    /\ UNCHANGED <<ledger, gi, pi, tried_urls, last_error, attempts, silent,
                   response, proof, report, raised>>

\* a direct call fetch_proof_json(tx, gateways); the argument is {} for
\* gateways=None (lines 68-69) and {list} for a list
CallFetchProofJson(tx, gws) ==
    /\ pc = "idle"
    /\ entry' = "fetch_proof_json"
    /\ tx_id' = tx
    /\ gateways' = IF gws = {} THEN DEFAULT_GATEWAYS ELSE CHOOSE g \in gws : TRUE
    /\ pc' = "loop"
    /\ UNCHANGED <<ledger, prompt, output, gi, pi, tried_urls, last_error,
                   attempts, silent, response, proof, report, raised>>

\* lines 81-88: the combination's URL was attempted before: continue
SkipDuplicate ==
    /\ pc = "loop"
    /\ gi <= Len(gateways)
    /\ AlreadyTried(CandidateUrl(gateways[gi], url_patterns[pi], tx_id), tried_urls)
    /\ gi' = NextGi(gi, pi)
    /\ pi' = NextPi(pi)
    /\ UNCHANGED <<pc, entry, ledger, tx_id, gateways, prompt, output, tried_urls,
                   last_error, attempts, silent, response, proof, report, raised>>

\* lines 81-92, 42-45: a new URL is recorded and requested with the timeout;
\* its gateway either answers or stays silent
SendRequest ==
    /\ pc = "loop"
    /\ gi <= Len(gateways)
    /\ LET url == CandidateUrl(gateways[gi], url_patterns[pi], tx_id)
       IN  /\ ~AlreadyTried(url, tried_urls)
           /\ tried_urls' = Append(tried_urls, url)
           /\ attempts' = Append(attempts, Request(url, {TIMEOUT}))
    /\ silent' \in BOOLEAN
    /\ pc' = "waiting"
    /\ UNCHANGED <<entry, ledger, tx_id, gateways, prompt, output, gi, pi,
                   last_error, response, proof, report, raised>>

\* line 95: the call is over: verify_proof goes on with the value,
\* a direct fetch_proof_json call ends
Return(r) ==
    /\ proof' = r.val
    /\ pc' = IF entry = "verify_proof" THEN "fetched" ELSE "done"
    /\ UNCHANGED <<gi, pi, last_error, raised>>

\* lines 96-99
Continue(r) ==
    /\ last_error' = r.exc
    /\ gi' = NextGi(gi, pi)
    /\ pi' = NextPi(pi)
    /\ pc' = "loop"
    /\ UNCHANGED <<proof, raised>>

\* an exception the except clause does not name leaves fetch_proof_json
\* (and verify_proof, which has no handler)
Propagate(r) ==
    /\ raised' = Exception(r.exc)
    /\ pc' = "done"
    /\ UNCHANGED <<gi, pi, last_error, proof>>

\* lines 91-99 for the outcome resp of the request in flight
Handle(resp) ==
    /\ response' = resp
    /\ attempts' = Settle(attempts, IF Decodes(resp) THEN "decoded" ELSE "failed")
    /\ LET r == TryBlock(resp)
       IN  CASE Disposition(r) = "return"   -> Return(r)
             [] Disposition(r) = "continue" -> Continue(r)
             [] Disposition(r) = "raise"    -> Propagate(r)
    /\ UNCHANGED <<entry, ledger, tx_id, gateways, prompt, output, tried_urls,
                   silent, report>>

\* the gateway answered: an error status, a refusal or a body
Receive(resp) ==
    /\ pc = "waiting"
    /\ entry # "app"
    /\ ~silent
    /\ Handle(resp)

\* the gateway stays silent and the request was given a timeout
ReadTimeout ==
    /\ pc = "waiting"
    /\ entry # "app"
    /\ silent
    /\ attempts[Len(attempts)].timeout # {}
    /\ Handle(TimedOut)

\* lines 101-106: both loops ended without a return
Exhausted ==
    /\ pc = "loop"
    /\ gi > Len(gateways)
    /\ raised' = RuntimeError(tx_id, tried_urls, last_error)
    /\ pc' = "done"
    /\ UNCHANGED <<entry, ledger, tx_id, gateways, prompt, output, gi, pi,
                   tried_urls, last_error, attempts, silent, response, proof,
                   report>>

\* verify_proof lines 124-157: proof.get raises AttributeError unless the
\* fetched value is a dict
VerifyProof ==
    /\ pc = "fetched"
    /\ IF proof.type = "object"
       THEN /\ report' = verify_proof(tx_id, proof.fields, prompt, output)
            /\ UNCHANGED raised
       ELSE /\ raised' = Exception("AttributeError")
            /\ UNCHANGED report
    /\ pc' = "done"
    /\ UNCHANGED <<entry, ledger, tx_id, gateways, prompt, output, gi, pi,
                   tried_urls, last_error, attempts, silent, response, proof>>

\* app.py lines 59-64, 28-30: the button is pressed; with a field left empty
\* the page asks for it, otherwise fetch_proof issues its GET without a timeout
AppClick(tx, p, o) ==
    /\ pc = "idle"
    /\ entry' = "app"
    /\ tx_id' = tx
    /\ prompt' = p
    /\ output' = o
    /\ IF tx = <<>> \/ p = "" \/ o = ""
       THEN /\ report' = AppError("Please fill in all fields before verification.")
            /\ pc' = "done"
            /\ UNCHANGED <<attempts, silent>>
       ELSE /\ attempts' = Append(attempts, Request(AppUrl(tx), {}))
            /\ silent' \in BOOLEAN
            /\ pc' = "waiting"
            /\ UNCHANGED report
    /\ UNCHANGED <<ledger, gateways, gi, pi, tried_urls, last_error, response,
                   proof, raised>>

\* app.py lines 30-32, 64-93: the gateway answered; every exception is caught
\* by the handler's "except Exception" and shown as an error
AppReceive(resp) ==
    /\ pc = "waiting"
    /\ entry = "app"
    /\ ~silent
    /\ response' = resp
    /\ attempts' = Settle(attempts, IF Decodes(resp) THEN "decoded" ELSE "failed")
    /\ LET r == TryBlock(resp)
       IN  /\ report' = IF r.exc # None THEN AppError(r.exc)
                        ELSE IF r.val.type # "object" THEN AppError("AttributeError")
                        ELSE AppResult(r.val.fields, prompt, output)
           /\ proof' = r.val
    /\ pc' = "done"
    /\ UNCHANGED <<entry, ledger, tx_id, gateways, prompt, output, gi, pi,
                   tried_urls, last_error, silent, raised>>

Next ==
    \/ \E p \in Texts, o \in Texts, now \in Timestamps : Upload(p, o, now)
    \/ \E tx \in TxIds, p \in Texts, o \in Texts : CallVerifyProof(tx, p, o)
    \/ \E tx \in TxIds, gws \in {{}} \cup {{g} : g \in GatewayLists} :
           CallFetchProofJson(tx, gws)
    \/ SkipDuplicate
    \/ SendRequest
    \/ \E resp \in Responses(ledger) : Receive(resp)
    \/ ReadTimeout
    \/ Exhausted
    \/ VerifyProof
    \/ \E tx \in TxIds \cup {<<>>}, p \in Texts, o \in Texts : AppClick(tx, p, o)
    \/ \E resp \in Responses(ledger) : AppReceive(resp)

Spec == Init /\ [][Next]_vars

\* a network on which every request fails at transport level: an error
\* status, a refused connection, or a timeout
ReceiveTransportFailure(resp) ==
    /\ resp.status # "200"
    /\ Receive(resp)

NextTransport ==
    \/ \E p \in Texts, o \in Texts, now \in Timestamps : Upload(p, o, now)
    \/ \E tx \in TxIds, p \in Texts, o \in Texts : CallVerifyProof(tx, p, o)
    \/ \E tx \in TxIds, gws \in {{}} \cup {{g} : g \in GatewayLists} :
           CallFetchProofJson(tx, gws)
    \/ SkipDuplicate
    \/ SendRequest
    \/ \E resp \in Responses(ledger) : ReceiveTransportFailure(resp)
    \/ ReadTimeout
    \/ Exhausted

TransportSpec == Init /\ [][NextTransport]_vars

----------------------------------------------------------------------------
(* Properties *)

\* the call in progress goes through fetch_proof_json
Fetching == entry \in {"verify_proof", "fetch_proof_json"}

\* the URLs requested so far, in request order
RequestedUrls == [k \in 1..Len(attempts) |-> attempts[k].url]

\* every (gateway, pattern) combination: gateways outer, patterns inner
Candidates(gws, tx) ==
    [i \in 1..(Len(gws) * Len(url_patterns)) |->
        CandidateUrl(gws[((i - 1) \div Len(url_patterns)) + 1],
                     url_patterns[((i - 1) % Len(url_patterns)) + 1], tx)]

\* a list without the later occurrences of its elements
RECURSIVE Distinct(_)
Distinct(list) ==
    IF list = <<>> THEN <<>>
    ELSE LET front == Distinct(SubSeq(list, 1, Len(list) - 1))
             x == list[Len(list)]
         IN  IF In(x, front) THEN front ELSE Append(front, x)

\* the record a proof publisher stores for the texts P and O
Published(P, O, now) ==
    Object(build_proof_metadata("gpt-4.1", P, O, "Dohoon Kim", "PromptGenix LLC", now))

\* the stored hash of a fetched payload, None when the payload has no such field
StoredHash(v, key) == IF v.type = "object" THEN Get(v.fields, key) ELSE None

\* C1: in every report verify_proof returns, and on every result page of the
\* app, verified is true exactly when prompt_ok and output_ok both are.
C1_VerifiedIffBothMatch ==
    /\ report.kind = "report" =>
         (report.verified <=> (report.prompt_ok /\ report.output_ok))
    /\ report.kind = "details" =>
         ((report.banner = "success")
            <=> (report.prompt_hash_match /\ report.output_hash_match))

\* C1 witness: a report with the prompt matching, the output not, and
\* verified false.
C1_Witness ==
    /\ report.kind = "report"
    /\ report.prompt_ok
    /\ ~report.output_ok
    /\ ~report.verified

\* C2: fetch_proof_json requests the candidate URLs in order (gateways outer,
\* patterns inner, repeated URLs left out): whenever a request has been
\* issued, the requests so far are the first distinct candidates; no request
\* is issued after a candidate's body decoded, and the value returned is the
\* one decoded from that candidate's body.
C2_FirstDecodedCandidateWins ==
    Fetching =>
      /\ pc = "waiting" =>
           LET ordered == Distinct(Candidates(gateways, tx_id))
           IN  /\ Len(attempts) <= Len(ordered)
               /\ RequestedUrls = SubSeq(ordered, 1, Len(attempts))
      /\ \A k \in 1..(Len(attempts) - 1) : attempts[k].outcome = "failed"
      /\ (attempts # <<>> /\ attempts[Len(attempts)].outcome = "decoded") =>
           /\ pc \in {"fetched", "done"}
           /\ proof = response.body.text.value
      /\ proof # NoValue =>
           (attempts # <<>> /\ attempts[Len(attempts)].outcome = "decoded")

\* C2 witness: a direct call ended by returning the other record from its
\* second or later candidate, with candidates left that were never requested.
C2_Witness ==
    /\ entry = "fetch_proof_json"
    /\ pc = "done"
    /\ Len(attempts) >= 2
    /\ Len(attempts) < Len(Distinct(Candidates(gateways, tx_id)))
    /\ proof = Object(OtherRecord)
    /\ proof # Object(ledger)

\* C3: when every candidate URL fails with a transport error, the call ends
\* with the RuntimeError whose message lists every URL attempted, in order.
C3_AllTransportFailuresGiveNotFound ==
    (Fetching /\ pc = "done") =>
      /\ raised.type = "RuntimeError"
      /\ raised.urls = RequestedUrls

\* C4: a per-URL failure (transport or decode) never leaves fetch_proof_json
\* by itself: the only error the fetch raises is the RuntimeError after all
\* candidates are exhausted. (AttributeError is raised by verify_proof after
\* the fetch returned.)
C4_PerUrlFailuresAreSoft ==
    Fetching =>
      /\ raised.type \in {None, "RuntimeError", "AttributeError"}
      /\ raised.type = "RuntimeError" => gi > Len(gateways)

\* C5: a candidate whose body is the base64 encoding of a record's JSON text
\* makes the fetch return that record, as a body that is the JSON text does.
C5_Base64DecodesLikeRawJson ==
    \A v \in WrappedValues(ledger) :
      LET raw == encode_utf8(json_dumps(v))
      IN  (pc \in {"loop", "fetched", "done"} /\ response.status = "200"
             /\ response.body \in {raw, encode_utf8(b64encode(raw))})
            => proof = v

\* C6: for every payload the fetch returned to verify_proof, a stored
\* prompt_hash or output_hash that is absent or empty gives a report with the
\* corresponding flag and verified false, and no exception.
C6_MissingHashNeverMatches ==
    (entry = "verify_proof" /\ pc = "done" /\ proof # NoValue) =>
      /\ StoredHash(proof, "prompt_hash") \in {None, ""} =>
           /\ raised.type = None
           /\ report.kind = "report"
           /\ ~report.prompt_ok
           /\ ~report.verified
      /\ StoredHash(proof, "output_hash") \in {None, ""} =>
           /\ raised.type = None
           /\ report.kind = "report"
           /\ ~report.output_ok
           /\ ~report.verified

\* C7: every value fetch_proof_json returns is a JSON object.
C7_FetchReturnsAnObject ==
    (Fetching /\ proof # NoValue) => proof.type = "object"

\* C8: when the fetched record is the one published for texts P and O,
\* verification with texts prompt and output gives prompt_ok = (prompt = P),
\* output_ok = (output = O) and verified = both, in verify_proof's report and
\* on the app's result page.
C8_MatchFlagsFollowTheTexts ==
    \A P \in Texts, O \in Texts, now \in Timestamps :
      proof = Published(P, O, now) =>
        /\ report.kind = "report" =>
             /\ report.prompt_ok = (prompt = P)
             /\ report.output_ok = (output = O)
             /\ report.verified = (prompt = P /\ output = O)
        /\ report.kind = "details" =>
             /\ report.prompt_hash_match = (prompt = P)
             /\ report.output_hash_match = (output = O)
             /\ (report.banner = "success") = (prompt = P /\ output = O)

\* C8 witness: the published record verified against a changed prompt and the
\* original output: prompt_ok false, output_ok still true.
C8_Witness ==
    /\ report.kind = "report"
    /\ proof = Object(ledger)
    /\ ledger.prompt_hash = upload_sha256_from_text("hello")
    /\ ledger.output_hash = upload_sha256_from_text("world")
    /\ prompt = "world!"
    /\ output = "world"
    /\ ~report.prompt_ok
    /\ report.output_ok

\* C9: every request issued while fetching a proof carries a timeout, and a
\* request in flight can always end (by an answer or by its timeout), in
\* verify.py's fetch_proof_json and in app.py's fetch_proof.
C9_EveryRequestHasATimeout ==
    /\ \A k \in 1..Len(attempts) : attempts[k].timeout # {}
    /\ pc = "waiting" => ENABLED Next

\* C10: within one fetch_proof_json call no URL is requested twice, tried_urls
\* holds exactly the requested URLs, and there are at most
\* Len(url_patterns) requests per gateway.
C10_NoUrlRequestedTwice ==
    Fetching =>
      /\ \A i \in 1..Len(attempts), j \in 1..Len(attempts) :
           i # j => attempts[i].url # attempts[j].url
      /\ tried_urls = RequestedUrls
      /\ Len(attempts) <= Len(url_patterns) * Len(gateways)

\* C10 witness: a call with the default gateways ran through every
\* combination; https://arweave.net with /tx/<TX>/data and
\* https://arweave.net/tx with /<TX>/data gave the same URL, requested once.
C10_Witness ==
    /\ entry = "fetch_proof_json"
    /\ gateways = DEFAULT_GATEWAYS
    /\ raised.type = "RuntimeError"
    /\ CandidateUrl(ARWEAVE, url_patterns[2], tx_id)
         = CandidateUrl(ARWEAVE_TX, url_patterns[3], tx_id)
    /\ Len(attempts) = Len(url_patterns) * Len(gateways) - 1

====
